---- MODULE Spec2Model ----
(***************************************************************************)
(* cellardoor: a hyper HTTP server that streams static files through       *)
(* ByteStream and answers the WebSocket opening handshake, handing the     *)
(* upgraded connection to a spawned serve_ws task.                         *)
(*                                                                         *)
(* Strings that the code hashes or compares byte-wise (header values, the  *)
(* magic GUID, the accept token) are sequences of their ASCII codes, as    *)
(* as_bytes() gives them.  32-bit words of SHA-1 are pairs <<hi, lo>> of   *)
(* 16-bit halves, so that every addition keeps its width (mod 2^32).       *)
(***************************************************************************)
EXTENDS Integers, Sequences, FiniteSets, TLC

\* ------------------------------------------------------------------------
\* Handshake engine: sha1::Sha1 over key ++ WEBSOCKET_MAGIC, base64::encode
\* ------------------------------------------------------------------------

\* "258EAFA5-E914-47DA-95CA-C5AB0DC85B11".as_bytes()
WEBSOCKET_MAGIC ==
    << 50, 53, 56, 69, 65, 70, 65, 53, 45, 69, 57, 49, 52, 45, 52, 55, 68, 65,
       45, 57, 53, 67, 65, 45, 67, 53, 65, 66, 48, 68, 67, 56, 53, 66, 49, 49 >>

RECURSIVE BitAnd(_, _)
BitAnd(a, b) ==
    IF a = 0 \/ b = 0 THEN 0
    ELSE ((a % 2) * (b % 2)) + 2 * BitAnd(a \div 2, b \div 2)

RECURSIVE BitXor(_, _)
BitXor(a, b) ==
    IF a = 0 THEN b
    ELSE IF b = 0 THEN a
    ELSE ((a + b) % 2) + 2 * BitXor(a \div 2, b \div 2)

BitOr(a, b) == a + b - BitAnd(a, b)

RECURSIVE Pow2(_)
Pow2(n) == IF n = 0 THEN 1 ELSE 2 * Pow2(n - 1)

\* a u32 is a pair of halves below 2^16
Half == Pow2(16)

WAnd(x, y) == << BitAnd(x[1], y[1]), BitAnd(x[2], y[2]) >>
WOr(x, y)  == << BitOr(x[1], y[1]), BitOr(x[2], y[2]) >>
WXor(x, y) == << BitXor(x[1], y[1]), BitXor(x[2], y[2]) >>
WNot(x)    == << (Half - 1) - x[1], (Half - 1) - x[2] >>

\* wrapping_add on u32
WAdd(x, y) ==
    LET lo == x[2] + y[2]
        hi == x[1] + y[1] + (lo \div Half)
    IN  << hi % Half, lo % Half >>

\* rotate_left on u32, 0 <= n < 32
Rotl(x, n) ==
    LET y == IF n >= 16 THEN << x[2], x[1] >> ELSE x
        k == n % 16
    IN  IF k = 0 THEN y
        ELSE << ((y[1] * Pow2(k)) % Half) + (y[2] \div Pow2(16 - k)),
                ((y[2] * Pow2(k)) % Half) + (y[1] \div Pow2(16 - k)) >>

\* the message followed by 0x80, zeros up to 56 mod 64, and the 64-bit
\* big-endian bit length
ZeroPad(m) == m \o [ i \in 1..((120 - (Len(m) % 64)) % 64) |-> 0 ]

Sha1Pad(msg) ==
    LET bits == Len(msg) * 8
    IN  ZeroPad(Append(msg, 128))
        \o << 0, 0, 0, 0,
              (bits \div 16777216) % 256, (bits \div 65536) % 256,
              (bits \div 256) % 256, bits % 256 >>

\* the 16 big-endian words of block number blk (from 0) of the padded message
BlockWords(p, blk) ==
    [ i \in 1..16 |->
        LET o == blk * 64 + (i - 1) * 4
        IN  << p[o + 1] * 256 + p[o + 2], p[o + 3] * 256 + p[o + 4] >> ]

\* the message schedule: k more words after those of w, up to 80
RECURSIVE Schedule(_, _)
Schedule(w, k) ==
    IF k = 0 THEN w
    ELSE IF k = 1 THEN
        LET t == Len(w) + 1
        IN  Append(w,
                Rotl(WXor(WXor(w[t - 3], w[t - 8]), WXor(w[t - 14], w[t - 16])), 1))
    ELSE LET n == Schedule(w, k \div 2)
         IN  IF Len(n) > 0 THEN Schedule(n, k - (k \div 2)) ELSE n

Sha1F(t, b, c, d) ==
    IF t < 20 THEN WOr(WAnd(b, c), WAnd(WNot(b), d))
    ELSE IF t < 40 THEN WXor(WXor(b, c), d)
    ELSE IF t < 60 THEN WOr(WOr(WAnd(b, c), WAnd(b, d)), WAnd(c, d))
    ELSE WXor(WXor(b, c), d)

Sha1K(t) ==
    IF t < 20 THEN << 23170, 31129 >>        \* 5A827999
    ELSE IF t < 40 THEN << 28377, 60321 >>   \* 6ED9EBA1
    ELSE IF t < 60 THEN << 36635, 48348 >>   \* 8F1BBCDC
    ELSE << 51810, 49622 >>                  \* CA62C1D6

\* round t on the working state s = <<a, b, c, d, e>>
Sha1Round(s, w, t) ==
    << WAdd(WAdd(WAdd(WAdd(Rotl(s[1], 5), Sha1F(t, s[2], s[3], s[4])), s[5]),
                 Sha1K(t)), w[t + 1]),
       s[1], Rotl(s[2], 30), s[3], s[4] >>

\* rounds from..to-1, in order
RECURSIVE Sha1Rounds(_, _, _, _)
Sha1Rounds(s, w, from, to) ==
    IF to - from = 1 THEN Sha1Round(s, w, from)
    ELSE LET mid == from + ((to - from) \div 2)
             n == Sha1Rounds(s, w, from, mid)
         IN  IF Len(n) > 0 THEN Sha1Rounds(n, w, mid, to) ELSE n

RECURSIVE Sha1Blocks(_, _, _)
Sha1Blocks(h, p, blk) ==
    IF blk * 64 >= Len(p) THEN h
    ELSE LET w == Schedule(BlockWords(p, blk), 64)
             s == Sha1Rounds(h, w, 0, 80)
             n == << WAdd(h[1], s[1]), WAdd(h[2], s[2]), WAdd(h[3], s[3]),
                     WAdd(h[4], s[4]), WAdd(h[5], s[5]) >>
         IN  IF Len(w) > 0 /\ Len(n) > 0 THEN Sha1Blocks(n, p, blk + 1) ELSE n

\* hash.digest().bytes(): the 20 bytes of the digest
Sha1Digest(msg) ==
    LET h == Sha1Blocks(<< << 26437, 8961 >>, << 61389, 43913 >>, << 39098, 56574 >>,
                           << 4146, 21622 >>, << 50130, 57840 >> >>,
                        Sha1Pad(msg), 0)
    IN  [ i \in 1..20 |->
            LET x == h[((i - 1) \div 4) + 1]
                j == (i - 1) % 4
            IN  IF j = 0 THEN x[1] \div 256
                ELSE IF j = 1 THEN x[1] % 256
                ELSE IF j = 2 THEN x[2] \div 256
                ELSE x[2] % 256 ]

\* the standard alphabet A-Z a-z 0-9 + /
Base64Char(i) ==
    IF i < 26 THEN 65 + i
    ELSE IF i < 52 THEN 97 + (i - 26)
    ELSE IF i < 62 THEN 48 + (i - 52)
    ELSE IF i = 62 THEN 43
    ELSE 47

\* base64::encode: three bytes to four characters, '=' padding
RECURSIVE Base64Encode(_)
Base64Encode(b) ==
    IF Len(b) = 0 THEN << >>
    ELSE IF Len(b) = 1 THEN
        << Base64Char(b[1] \div 4), Base64Char((b[1] % 4) * 16), 61, 61 >>
    ELSE IF Len(b) = 2 THEN
        << Base64Char(b[1] \div 4),
           Base64Char((b[1] % 4) * 16 + (b[2] \div 16)),
           Base64Char((b[2] % 16) * 4), 61 >>
    ELSE
        << Base64Char(b[1] \div 4),
           Base64Char((b[1] % 4) * 16 + (b[2] \div 16)),
           Base64Char((b[2] % 16) * 4 + (b[3] \div 64)),
           Base64Char(b[3] % 64) >>
        \o Base64Encode(SubSeq(b, 4, Len(b)))

\* the magic hashed before the key
computeAcceptTokenMagicFirst(key) == Base64Encode(Sha1Digest(WEBSOCKET_MAGIC \o key))

\* hash.update(key); hash.update(WEBSOCKET_MAGIC); base64::encode(digest)
computeAcceptToken(key) == Base64Encode(Sha1Digest(key \o WEBSOCKET_MAGIC))

\* "dGhlIHNhbXBsZSBub25jZQ==" (the RFC 6455 sample nonce)
KeySample ==
    << 100, 71, 104, 108, 73, 72, 78, 104, 98, 88, 66, 115,
       90, 83, 66, 117, 98, 50, 53, 106, 90, 81, 61, 61 >>

\* "s3pPLMBiTxaQ9kYGzzhZRbK+xOo="
TokenSample ==
    << 115, 51, 112, 80, 76, 77, 66, 105, 84, 120, 97, 81, 57, 107,
       89, 71, 122, 122, 104, 90, 82, 98, 75, 43, 120, 79, 111, 61 >>

\* "AQIDBAUGBwgJCgsMDQ4PEA==" (another 16-byte nonce)
KeyOther ==
    << 65, 81, 73, 68, 66, 65, 85, 71, 66, 119, 103, 74,
       67, 103, 115, 77, 68, 81, 52, 80, 69, 65, 61, 61 >>

\* the Sec-WebSocket-Key values a client sends
Keys == { KeySample, KeyOther }

\* accept_str of each key of Keys, computed once
AcceptTokens == [ k \in Keys |-> computeAcceptToken(k) ]

accept_str(key) == AcceptTokens[key]

\* ------------------------------------------------------------------------
\* Paths: sequences of one-character strings
\* ------------------------------------------------------------------------

STATIC_FILES == << "/", "w", "w", "w" >>

PathIndex  == << "/", "a", ".", "t", "x", "t" >>      \* "/a.txt"
PathNone   == << "/", "n", "o", "n", "e" >>           \* "/none"
PathRoot   == << "/" >>                               \* "/"
PathDenied == << "/", "p" >>                          \* "/p"
PathDouble == << "/", "/", "x" >>                     \* "//x"
PathUnknown == << "/", "u", ".", "q" >>               \* "/u.q"

\* PathBuf::push on unix: an absolute argument replaces the path, otherwise
\* it is appended after a separator when the path does not end with one
PathPush(root, p) ==
    IF p # << >> /\ p[1] = "/" THEN p
    ELSE IF root # << >> /\ root[Len(root)] # "/" THEN root \o << "/" >> \o p
    ELSE root \o p

\* the final component of a path: trailing separators and "." are dropped
RECURSIVE FileName(_)
FileName(p) ==
    IF p = << >> THEN << >>
    ELSE IF p[Len(p)] = "/" THEN FileName(SubSeq(p, 1, Len(p) - 1))
    ELSE IF p[Len(p)] = "." /\ Len(p) >= 2 /\ p[Len(p) - 1] = "/"
         THEN FileName(SubSeq(p, 1, Len(p) - 2))
    ELSE LET cut == { i \in 1..Len(p) : p[i] = "/" }
             from == IF cut = {} THEN 1
                     ELSE (CHOOSE i \in cut : \A j \in cut : j <= i) + 1
         IN  SubSeq(p, from, Len(p))

\* Path::extension: what follows the last "." of the file name, if the file
\* name has one that is not its first character; << >> is None
Extension(p) ==
    LET name == FileName(p)
        dots == { i \in 1..Len(name) : name[i] = "." }
        last == CHOOSE i \in dots : \A j \in dots : j <= i
    IN  IF name = << >> \/ name = << ".", "." >> \/ dots = {} THEN << >>
        ELSE IF last = 1 THEN << >>
        ELSE << SubSeq(name, last + 1, Len(name)) >>

\* mime_guess::get_mime_type_str on the extensions of the served tree
get_mime_type_str(ext) ==
    IF ext = << "t", "x", "t" >> THEN << "text/plain" >>
    ELSE IF ext = << "h", "t", "m", "l" >> THEN << "text/html" >>
    ELSE << >>

\* ------------------------------------------------------------------------
\* The file system the server reads
\* ------------------------------------------------------------------------

\* byte number i (from 1) of every file of the tree
FileByte(i) == (7 * i + 3) % 251

\* the bytes of a file of n bytes
FileBytes(n) == [ i \in 1..n |-> FileByte(i) ]

FileEntry(size) == [ kind |-> "file", size |-> size ]
DirEntry        == [ kind |-> "dir", size |-> 0 ]
DeniedEntry     == [ kind |-> "denied", size |-> 0 ]

\* /www/a.txt of the given size, the directory /www/, the unreadable /www/p,
\* /www/u.q of one byte, and /x outside the root
FileSystem(size) ==
    [ q \in { PathPush(STATIC_FILES, Tail(PathIndex)),
              PathPush(STATIC_FILES, << >>),
              PathPush(STATIC_FILES, Tail(PathDenied)),
              PathPush(STATIC_FILES, Tail(PathUnknown)),
              << "/", "x" >> } |->
        IF q = PathPush(STATIC_FILES, Tail(PathIndex)) THEN FileEntry(size)
        ELSE IF q = PathPush(STATIC_FILES, << >>) THEN DirEntry
        ELSE IF q = PathPush(STATIC_FILES, Tail(PathDenied)) THEN DeniedEntry
        ELSE FileEntry(1) ]

\* File::open: << >> is Ok(file), otherwise the io::Error kind
OpenError(files, q) ==
    IF q \notin DOMAIN files THEN << "NotFound" >>
    ELSE IF files[q].kind = "denied" THEN << "PermissionDenied" >>
    ELSE << >>

\* ------------------------------------------------------------------------
\* Requests and responses
\* ------------------------------------------------------------------------

\* Option<T>: << >> is None, << v >> is Some(v)
None == << >>
Some(v) == << v >>

Methods  == { "GET", "POST", "HEAD" }
Paths    == { PathIndex, PathNone, PathRoot, PathDenied, PathDouble, PathUnknown }
Upgrades == { None, Some("websocket"), Some("h2c") }
Versions == { None, Some("13"), Some("8") }
KeyOpts  == { None } \cup { Some(k) : k \in Keys }

\* every request a client can send
Requests ==
    [ method : Methods, path : Paths, upgrade : Upgrades,
      version : Versions, key : KeyOpts ]

Request(m, p, u, v, k) ==
    [ method |-> m, path |-> p, upgrade |-> u, version |-> v, key |-> k ]

\* one request of each kind, for the runs with several connections
CoreRequests ==
    { Request("POST", PathIndex, None, None, None),
      Request("GET", PathIndex, None, None, None),
      Request("GET", PathNone, None, None, None),
      Request("GET", PathRoot, None, None, None),
      Request("GET", PathIndex, Some("websocket"), Some("13"), Some(KeySample)),
      Request("GET", PathIndex, Some("websocket"), Some("13"), None),
      Request("GET", PathIndex, Some("websocket"), None, Some(KeySample)) }

NoRequest == Request("", << >>, None, None, None)

Response(status, upgrade, connection, accept, ctype, body, stream) ==
    [ status |-> status, upgrade |-> upgrade, connection |-> connection,
      accept |-> accept, content_type |-> ctype, body |-> body, stream |-> stream ]

NoResponse == Response(0, None, None, None, None, "", FALSE)

\* what one call of serve_req does besides returning its response
Outcome(resp, spawn, opened, file, log) ==
    [ resp |-> resp, spawn |-> spawn, opened |-> opened, file |-> file, log |-> log ]

\* ------------------------------------------------------------------------
\* serve_req
\* ------------------------------------------------------------------------

\* HEAD let through like GET
IsGetOrHead(r) == r.method \in { "GET", "HEAD" }

\* req.method() == Method::GET
IsGet(r) == r.method = "GET"

\* only "Upgrade: websocket" taken for an upgrade
HasUpgradeWebsocket(r) == r.upgrade = Some("websocket")

\* req.headers().contains_key(UPGRADE)
HasUpgrade(r) == r.upgrade # None

\* a missing version header taken for version 13
VersionIs13OrAbsent(r) == r.version \in { None, Some("13") }

\* any version header accepted
VersionPresent(r) == r.version # None

\* Some(&HeaderValue::from_static("13")) == req.headers().get(SEC_WEBSOCKET_VERSION)
VersionIs13(r) == r.version = Some("13")

MethodNotAllowed ==
    Response(405, None, None, None, None, "Only GET Allowed!", FALSE)

MissingKey ==
    Response(400, None, None, None, None, "Missing Sec-WebSocket-Key", FALSE)

UnknownVersion ==
    Response(400, None, None, None, None, "Unknown WebSocket version", FALSE)

NotFound ==
    Response(404, None, None, None, None, "Not Found", FALSE)

\* the 101 response without its Connection header
SwitchingProtocolsNoConnection(key) ==
    Response(101, Some("websocket"), None, Some(accept_str(key)), None,
             "Switching protocols", FALSE)

SwitchingProtocols(key) ==
    Response(101, Some("websocket"), Some("Upgrade"), Some(accept_str(key)), None,
             "Switching protocols", FALSE)

\* a file of no known type served as application/octet-stream
FileResponseTyped(filename) ==
    LET extension == Extension(filename)
        mimetype  == IF extension = None THEN None ELSE get_mime_type_str(extension[1])
    IN  Response(200, None, None, None,
                 IF mimetype = None THEN Some("application/octet-stream") ELSE mimetype,
                 "", TRUE)

\* Response::builder() keeps its default status, 200
FileResponse(filename) ==
    LET extension == Extension(filename)
        mimetype  == IF extension = None THEN None ELSE get_mime_type_str(extension[1])
    IN  Response(200, None, None, None, mimetype, "", TRUE)

\* the key looked for before the version
serve_upgrade_key_first(r) ==
    LET log == { "info: REQ", "debug: Upgrade to websocket!" }
    IN  IF r.key = None THEN Outcome(MissingKey, FALSE, None, None, log)
        ELSE IF VersionIs13(r)
        THEN Outcome(SwitchingProtocols(r.key[1]), TRUE, None, None, log)
        ELSE Outcome(UnknownVersion, FALSE, None, None, log)

\* the WebSocket branch
serve_upgrade(r) ==
    LET log == { "info: REQ", "debug: Upgrade to websocket!" }
    IN  IF VersionIs13(r) THEN
            IF r.key # None
            THEN Outcome(SwitchingProtocols(r.key[1]), TRUE, None, None, log)
            ELSE Outcome(MissingKey, FALSE, None, None, log)
        ELSE Outcome(UnknownVersion, FALSE, None, None, log)

\* a refused open answered 403 instead of 404
serve_file_forbidden(r, root, files) ==
    LET full == PathPush(root, Tail(r.path))
        err  == OpenError(files, full)
        log  == { "info: REQ", "debug: Requesting file" }
    IN  IF err = None
        THEN Outcome(FileResponse(r.path), FALSE, Some(full), Some(full), log)
        ELSE IF err = Some("PermissionDenied")
        THEN Outcome(Response(403, None, None, None, None, "Forbidden", FALSE),
                     FALSE, Some(full), None, log \cup { "error: " \o err[1] })
        ELSE Outcome(NotFound, FALSE, Some(full), None, log \cup { "error: " \o err[1] })

\* the connection task spawned for a file request too
serve_file_spawning(r, root, files) ==
    LET full == PathPush(root, Tail(r.path))
        err  == OpenError(files, full)
        log  == { "info: REQ", "debug: Requesting file" }
    IN  IF err = None
        THEN Outcome(FileResponse(r.path), TRUE, Some(full), Some(full), log)
        ELSE Outcome(NotFound, TRUE, Some(full), None, log \cup { "error: " \o err[1] })

\* the static file branch
serve_file(r, root, files) ==
    LET filename == r.path
        full     == PathPush(root, Tail(filename))
        err      == OpenError(files, full)
        log      == { "info: REQ", "debug: Requesting file" }
    IN  IF err = None
        THEN Outcome(FileResponse(filename), FALSE, Some(full), Some(full), log)
        ELSE Outcome(NotFound, FALSE, Some(full), None, log \cup { "error: " \o err[1] })

\* serve_req never returns Err: every branch is Ok(response)
serve_req(r, root, files) ==
    IF IsGet(r) THEN
        IF HasUpgrade(r) THEN serve_upgrade(r) ELSE serve_file(r, root, files)
    ELSE Outcome(MethodNotAllowed, FALSE, None, None, { "info: REQ" })

\* ------------------------------------------------------------------------
\* ByteStream
\* ------------------------------------------------------------------------

\* let mut buf = [0; 1024]
BUF_SIZE == 1024

\* short reads the runs try besides the full ones: 1..SmallRead bytes
SmallRead == 1

\* the largest file of the streaming runs fills MaxBlocks buffers
MaxBlocks == 2

Min(a, b) == IF a < b THEN a ELSE b

\* the byte counts one read may return when rem > 0 bytes are left and the
\* buffer holds cap: short reads, nearly full ones, and all that fits
ReadSizes(rem, cap) ==
    { n \in 1..Min(rem, cap) :
        n <= SmallRead \/ n >= cap - 1 \/ n = Min(rem, cap) }

\* the io::Error kinds a read may fail with
IoErrors == { "Other", "TimedOut" }

\* no error
NoError == ""

ReadResult(kind, data, err) == [ kind |-> kind, data |-> data, err |-> err ]

\* AsyncRead::poll_read of an open handle h = [path, pos] into a buffer of
\* cap bytes: Ok(Ready(n)) with the next n bytes (n = 0 exactly at the end of
\* a file), Ok(NotReady), or Err; reading a directory is always Err
poll_read(files, h, cap) ==
    LET e   == files[h.path]
        rem == e.size - h.pos
    IN  { ReadResult("notready", << >>, NoError) }
        \cup { ReadResult("err", << >>, x) : x \in IoErrors }
        \cup
        IF e.kind # "file" THEN { }
        ELSE IF rem = 0 THEN { ReadResult("ready", << >>, NoError) }
        ELSE { ReadResult("ready", [ i \in 1..n |-> FileByte(h.pos + i) ], NoError) :
                 n \in ReadSizes(rem, cap) }

\* buf after the read wrote its bytes at the front of the zeroed buffer
FillBuf(data) == data \o [ i \in 1..(BUF_SIZE - Len(data)) |-> 0 ]

\* the whole buffer taken for the chunk
ChunkWhole(buf, n) == buf

\* Vec::from(&buf[..n])
ChunkOf(buf, n) == SubSeq(buf, 1, n)

PollResult(kind, chunk, err) == [ kind |-> kind, chunk |-> chunk, err |-> err ]

\* Ok(NotReady) of the read answered with an empty chunk
ByteStream_pollNotReadyEmpty(rd) ==
    LET buf == FillBuf(rd.data)
        n   == Len(rd.data)
    IN  IF rd.kind = "ready" THEN
            IF n = 0 THEN PollResult("end", << >>, NoError)
            ELSE PollResult("item", ChunkOf(buf, n), NoError)
        ELSE IF rd.kind = "notready" THEN PollResult("item", ChunkOf(buf, 0), NoError)
        ELSE PollResult("err", << >>, rd.err)

\* Err of the read taken for the end of the file
ByteStream_pollErrEnds(rd) ==
    LET buf == FillBuf(rd.data)
        n   == Len(rd.data)
    IN  IF rd.kind = "ready" THEN
            IF n = 0 THEN PollResult("end", << >>, NoError)
            ELSE PollResult("item", ChunkOf(buf, n), NoError)
        ELSE IF rd.kind = "notready" THEN PollResult("notready", << >>, NoError)
        ELSE PollResult("end", << >>, NoError)

\* ByteStream::poll on the result rd of self.0.poll_read(&mut buf)
ByteStream_poll(rd) ==
    LET buf == FillBuf(rd.data)
        n   == Len(rd.data)
    IN  IF rd.kind = "ready" THEN
            IF n = 0 THEN PollResult("end", << >>, NoError)
            ELSE PollResult("item", ChunkOf(buf, n), NoError)
        ELSE IF rd.kind = "notready" THEN PollResult("notready", << >>, NoError)
        ELSE PollResult("err", << >>, rd.err)

\* ------------------------------------------------------------------------
\* The server: connections, their HTTP state, streams and WebSocket tasks
\* ------------------------------------------------------------------------

\* connections the server has at once
MaxConns == 2

Conns == 1..MaxConns

VARIABLES
    fs,       \* the file system: resolved path -> entry
    http,     \* per connection: "closed", "idle", "respond", "body", "upgraded"
    req,      \* the request serve_req was last called with
    resp,     \* the response serve_req returned
    opened,   \* the path serve_req passed to File::open, if any
    stream,   \* the ByteStream of the response body: Some([path, pos]) or None
    sent,     \* the body bytes written so far, chunk after chunk
    last,     \* the result of the last ByteStream::poll: <<kind, length, error>>
    task,     \* the spawned task: "none", "pending", "framing", "done"
    wsLast,   \* what framed.next() last yielded: "none", "msg", "err", "eof"
    log       \* the lines logged for the connection's current request and task

vars == << fs, http, req, resp, opened, stream, sent, last, task, wsLast, log >>

\* the sizes of the files of the streaming runs
StreamSizes ==
    { 0, 1, BUF_SIZE - 1, BUF_SIZE, BUF_SIZE + 1, MaxBlocks * BUF_SIZE }

InitConns ==
    /\ http   = [ c \in Conns |-> "closed" ]
    /\ req    = [ c \in Conns |-> NoRequest ]
    /\ resp   = [ c \in Conns |-> NoResponse ]
    /\ opened = [ c \in Conns |-> None ]
    /\ stream = [ c \in Conns |-> None ]
    /\ sent   = [ c \in Conns |-> << >> ]
    /\ last   = [ c \in Conns |-> << "none", 0, NoError >> ]
    /\ task   = [ c \in Conns |-> "none" ]
    /\ wsLast = [ c \in Conns |-> "none" ]
    /\ log    = [ c \in Conns |-> { } ]

\* the server is bound and has no connection yet; /www/a.txt has three bytes
Init ==
    /\ fs = FileSystem(3)
    /\ InitConns

\* the same, with /www/a.txt of one of the sizes around the buffer size
InitStream ==
    /\ fs \in { FileSystem(n) : n \in StreamSizes }
    /\ InitConns

\* Server::bind(..).serve(..): a connection is accepted
Accept(c) ==
    /\ http[c] = "closed"
    /\ task[c] \in { "none", "done" }
    /\ http'   = [ http EXCEPT ![c] = "idle" ]
    /\ req'    = [ req EXCEPT ![c] = NoRequest ]
    /\ resp'   = [ resp EXCEPT ![c] = NoResponse ]
    /\ opened' = [ opened EXCEPT ![c] = None ]
    /\ stream' = [ stream EXCEPT ![c] = None ]
    /\ sent'   = [ sent EXCEPT ![c] = << >> ]
    /\ last'   = [ last EXCEPT ![c] = << "none", 0, NoError >> ]
    /\ task'   = [ task EXCEPT ![c] = "none" ]
    /\ wsLast' = [ wsLast EXCEPT ![c] = "none" ]
    /\ log'    = [ log EXCEPT ![c] = { } ]
    /\ UNCHANGED fs

\* service_fn(|req| serve_req(req, PathBuf::from(STATIC_FILES))): the request
\* r arrives on connection c and serve_req runs to its response
ServeReq(c, r) ==
    /\ http[c] = "idle"
    /\ \E o \in { serve_req(r, STATIC_FILES, fs) } :
           /\ req'    = [ req EXCEPT ![c] = r ]
           /\ resp'   = [ resp EXCEPT ![c] = o.resp ]
           /\ opened' = [ opened EXCEPT ![c] = o.opened ]
           /\ stream' = [ stream EXCEPT ![c] =
                            IF o.file = None THEN None
                            ELSE Some([ path |-> o.file[1], pos |-> 0 ]) ]
           /\ task'   = [ task EXCEPT ![c] = IF o.spawn THEN "pending" ELSE "none" ]
           /\ log'    = [ log EXCEPT ![c] = o.log ]
    /\ http'   = [ http EXCEPT ![c] = "respond" ]
    /\ sent'   = [ sent EXCEPT ![c] = << >> ]
    /\ last'   = [ last EXCEPT ![c] = << "none", 0, NoError >> ]
    /\ wsLast' = [ wsLast EXCEPT ![c] = "none" ]
    /\ UNCHANGED fs

\* hyper writes the response head, and its body when that is not a stream;
\* a 101 hands the connection to the pending upgrade
WriteHead(c) ==
    /\ http[c] = "respond"
    /\ http' = [ http EXCEPT ![c] =
                   IF resp[c].status = 101 THEN "upgraded"
                   ELSE IF resp[c].stream THEN "body"
                   ELSE "idle" ]
    /\ UNCHANGED << fs, req, resp, opened, stream, sent, last, task, wsLast, log >>

\* one read position for all the streams of a file: the furthest of them
PollReadsShared(c) ==
    IF stream[c] = None THEN { }
    ELSE LET same == { d \in Conns : stream[d] # None /\ stream[d][1].path = stream[c][1].path }
             far  == CHOOSE d \in same : \A e \in same : stream[e][1].pos <= stream[d][1].pos
         IN  poll_read(fs, stream[far][1], BUF_SIZE)

\* the results the next poll_read of connection c's stream may have
PollReads(c) ==
    IF stream[c] = None THEN { } ELSE poll_read(fs, stream[c][1], BUF_SIZE)

\* hyper polls the body: one ByteStream::poll, on one poll_read result
PollBody(c) ==
    /\ http[c] = "body"
    /\ \E rd \in PollReads(c) :
       \E p \in { ByteStream_poll(rd) } :
           /\ last' = [ last EXCEPT ![c] = << p.kind, Len(p.chunk), p.err >> ]
           /\ sent' = [ sent EXCEPT ![c] = @ \o p.chunk ]
           /\ stream' = [ stream EXCEPT ![c] =
                            IF p.kind \in { "end", "err" } THEN None
                            ELSE Some([ @[1] EXCEPT !.pos = @ + Len(rd.data) ]) ]
           /\ http' = [ http EXCEPT ![c] =
                          IF p.kind = "end" THEN "idle"
                          ELSE IF p.kind = "err" THEN "closed"
                          ELSE @ ]
    /\ UNCHANGED << fs, req, resp, opened, task, wsLast, log >>

\* the connection closed with the body's ByteStream kept
ClientCloseLeaking(c) ==
    /\ http[c] \in { "idle", "respond", "body" }
    /\ http'   = [ http EXCEPT ![c] = "closed" ]
    /\ UNCHANGED << fs, req, resp, opened, stream, sent, last, task, wsLast, log >>

\* the client goes away while the HTTP machinery has the connection: the
\* connection is dropped with the response it was writing, and the body's
\* ByteStream, which owns the File, with it
ClientClose(c) ==
    /\ http[c] \in { "idle", "respond", "body" }
    /\ http'   = [ http EXCEPT ![c] = "closed" ]
    /\ stream' = [ stream EXCEPT ![c] = None ]
    /\ UNCHANGED << fs, req, resp, opened, sent, last, task, wsLast, log >>

\* the upgrade resolved while the 101 is not yet written
UpgradeOkEarly(c) ==
    /\ task[c] = "pending"
    /\ http[c] \in { "respond", "upgraded" }
    /\ task' = [ task EXCEPT ![c] = "framing" ]
    /\ UNCHANGED << fs, http, req, resp, opened, stream, sent, last, wsLast, log >>

\* await!(req.into_body().on_upgrade()) is Ok: the task enters serve_ws
UpgradeOk(c) ==
    /\ task[c] = "pending"
    /\ http[c] = "upgraded"
    /\ task' = [ task EXCEPT ![c] = "framing" ]
    /\ UNCHANGED << fs, http, req, resp, opened, stream, sent, last, wsLast, log >>

\* a failed upgrade that goes on into serve_ws all the same
UpgradeFailedEntersLoop(c) ==
    /\ task[c] = "pending"
    /\ http[c] = "closed"
    /\ task' = [ task EXCEPT ![c] = "framing" ]
    /\ log'  = [ log EXCEPT ![c] = @ \cup { "error: WebSocket upgrade failed." } ]
    /\ UNCHANGED << fs, http, req, resp, opened, stream, sent, last, wsLast >>

\* on_upgrade is Err: the connection went away before it was handed over
UpgradeFailed(c) ==
    /\ task[c] = "pending"
    /\ http[c] = "closed"
    /\ task' = [ task EXCEPT ![c] = "done" ]
    /\ log'  = [ log EXCEPT ![c] = @ \cup { "error: WebSocket upgrade failed." } ]
    /\ UNCHANGED << fs, http, req, resp, opened, stream, sent, last, wsLast >>

\* what the compat stream of the framed connection yields
WsItems == { "msg", "err", "eof" }

\* the loop of serve_ws ends exactly on None; Some(Ok(m)) and Some(Err(e))
\* both match Some(message)
WsContinues(item) == item # "eof"

\* serve_ws: one await!(framed.next()) and the loop body or the loop's end
WsNext(c, item) ==
    /\ task[c] = "framing"
    /\ wsLast' = [ wsLast EXCEPT ![c] = item ]
    /\ IF WsContinues(item)
       THEN /\ log' = [ log EXCEPT ![c] = @ \cup { "debug: Received message: " \o item } ]
            /\ UNCHANGED << task, http >>
       ELSE /\ task' = [ task EXCEPT ![c] = "done" ]
            /\ http' = [ http EXCEPT ![c] = "closed" ]
            /\ UNCHANGED log
    /\ UNCHANGED << fs, req, resp, opened, stream, sent, last >>

\* the server with MaxConns connections and one request of each kind
Next ==
    \E c \in Conns :
        \/ Accept(c)
        \/ \E r \in CoreRequests : ServeReq(c, r)
        \/ WriteHead(c)
        \/ PollBody(c)
        \/ ClientClose(c)
        \/ UpgradeOk(c)
        \/ UpgradeFailed(c)
        \/ \E item \in WsItems : WsNext(c, item)

Spec == Init /\ [][Next]_vars

\* one connection and every request
NextReq ==
    \/ Accept(1)
    \/ \E r \in Requests : ServeReq(1, r)
    \/ WriteHead(1)
    \/ PollBody(1)
    \/ ClientClose(1)
    \/ UpgradeOk(1)
    \/ UpgradeFailed(1)
    \/ \E item \in WsItems : WsNext(1, item)

SpecReq == Init /\ [][NextReq]_vars

\* one connection streaming /www/a.txt
StreamRequest == Request("GET", PathIndex, None, None, None)

NextStream ==
    \/ Accept(1)
    \/ ServeReq(1, StreamRequest)
    \/ WriteHead(1)
    \/ PollBody(1)

SpecStream == InitStream /\ [][NextStream]_vars

\* the largest size /www/a.txt grows to while it is read
MaxAppend == 6

\* the file starts empty or with one byte
InitAdapter ==
    /\ fs \in { FileSystem(n) : n \in 0..1 }
    /\ InitConns

\* another process appends a byte to /www/a.txt
AppendByte ==
    /\ \E q \in { PathPush(STATIC_FILES, Tail(PathIndex)) } :
           /\ fs[q].size < MaxAppend
           /\ fs' = [ fs EXCEPT ![q] = FileEntry(@.size + 1) ]
    /\ UNCHANGED << http, req, resp, opened, stream, sent, last, task, wsLast, log >>

\* ByteStream::poll called on the stream of connection c by any consumer of
\* the Stream: poll takes &mut self and keeps no state, so the stream and
\* its handle are there for the next call whatever this one returned
Poll(c) ==
    /\ http[c] = "body"
    /\ \E rd \in PollReads(c) :
       \E p \in { ByteStream_poll(rd) } :
           /\ last' = [ last EXCEPT ![c] = << p.kind, Len(p.chunk), p.err >> ]
           /\ sent' = [ sent EXCEPT ![c] = @ \o p.chunk ]
           /\ stream' = [ stream EXCEPT ![c] =
                            Some([ @[1] EXCEPT !.pos = @ + Len(rd.data) ]) ]
    /\ UNCHANGED << fs, http, req, resp, opened, task, wsLast, log >>

\* the ByteStream of one response, polled again and again, over a file
\* that grows
NextAdapter ==
    \/ Accept(1)
    \/ ServeReq(1, StreamRequest)
    \/ WriteHead(1)
    \/ Poll(1)
    \/ AppendByte

SpecAdapter == InitAdapter /\ [][NextAdapter]_vars

\* ------------------------------------------------------------------------
\* Properties
\* ------------------------------------------------------------------------

\* connection c has a request that serve_req answered
Served(c) == req[c] # NoRequest

GetUpgrade(c) == Served(c) /\ req[c].method = "GET" /\ req[c].upgrade # None

GetFile(c) == Served(c) /\ req[c].method = "GET" /\ req[c].upgrade = None

\* C1: a request whose method is not GET is answered 405 "Only GET Allowed!"
\* whatever its path and headers, and nothing else happens: no file is
\* opened, no stream made and no connection task spawned.
C1_MethodGate ==
    \A c \in Conns :
        (Served(c) /\ req[c].method # "GET") =>
            /\ resp[c] = MethodNotAllowed
            /\ log[c] = { "info: REQ" }
            /\ opened[c] = None
            /\ stream[c] = None
            /\ task[c] = "none"

C1_Witness ==
    \E c \in Conns :
        /\ Served(c) /\ req[c].method = "POST"
        /\ req[c].upgrade = Some("websocket") /\ req[c].version = Some("13")
        /\ req[c].key = Some(KeySample)
        /\ resp[c].status = 405

\* C2 as claimed: a GET with an Upgrade header and no Sec-WebSocket-Key is
\* answered 400 "Missing Sec-WebSocket-Key" whatever its version header.
C2_Claimed ==
    \A c \in Conns :
        (GetUpgrade(c) /\ req[c].key = None) =>
            (resp[c] = MissingKey /\ task[c] = "none")

\* C2 amended: a GET with an Upgrade header and no Sec-WebSocket-Key is
\* answered 400 "Missing Sec-WebSocket-Key" when its version header is
\* exactly "13", and 400 "Unknown WebSocket version" when the version header
\* is absent or different (the version is looked at first); no connection
\* task is spawned in either case.
C2_MissingKey ==
    \A c \in Conns :
        (GetUpgrade(c) /\ req[c].key = None) =>
            /\ resp[c] = IF req[c].version = Some("13") THEN MissingKey
                         ELSE UnknownVersion
            /\ task[c] = "none"

C2_Witness ==
    \E c \in Conns :
        /\ GetUpgrade(c) /\ req[c].key = None /\ req[c].version = Some("13")
        /\ resp[c] = MissingKey

\* C3 as claimed: a GET with an Upgrade header, a key and no version header
\* passes validation and is answered 101, the upgrade task started.
C3_Claimed ==
    \A c \in Conns :
        (GetUpgrade(c) /\ req[c].key # None /\ req[c].version = None) =>
            (resp[c].status = 101 /\ task[c] # "none")

\* C3 amended: the version check rejects whenever Sec-WebSocket-Version is
\* not exactly "13", the absent header included: a GET with an Upgrade
\* header, a key and no version header is answered 400 "Unknown WebSocket
\* version" and no task is started, unlike a request whose version is "13".
C3_AbsentVersion ==
    \A c \in Conns :
        (GetUpgrade(c) /\ req[c].key # None /\ req[c].version = None) =>
            (resp[c] = UnknownVersion /\ task[c] = "none")

C3_Witness ==
    \E c \in Conns :
        /\ GetUpgrade(c) /\ req[c].key = Some(KeySample) /\ req[c].version = None
        /\ resp[c].status = 400

\* C4: a GET with an Upgrade header and a key whose version header is present
\* and not "13" is answered 400 "Unknown WebSocket version"; the response
\* carries no accept token and no connection task is spawned.
C4_UnsupportedVersion ==
    \A c \in Conns :
        (GetUpgrade(c) /\ req[c].key # None
            /\ req[c].version # None /\ req[c].version # Some("13")) =>
            /\ resp[c] = UnknownVersion
            /\ resp[c].accept = None
            /\ task[c] = "none"

C4_Witness ==
    \E c \in Conns :
        /\ GetUpgrade(c) /\ req[c].key = Some(KeySample) /\ req[c].version = Some("8")
        /\ resp[c].status = 400

\* C5: a GET with an Upgrade header, version "13" and key k is answered 101
\* with Upgrade: websocket, Connection: Upgrade and Sec-WebSocket-Accept the
\* accept token of that request's own k, and its connection task is started.
C5_Switching ==
    \A c \in Conns :
        (GetUpgrade(c) /\ req[c].version = Some("13") /\ req[c].key # None) =>
            /\ resp[c].status = 101
            /\ resp[c].upgrade = Some("websocket")
            /\ resp[c].connection = Some("Upgrade")
            /\ resp[c].accept = Some(AcceptTokens[req[c].key[1]])
            /\ task[c] # "none"

C5_Witness ==
    \E c \in Conns :
        /\ GetUpgrade(c) /\ req[c].version = Some("13") /\ req[c].key = Some(KeyOther)
        /\ resp[c].status = 101
        /\ task[c] = "framing"

\* "C/0nmHhBztSRGR1CwL6Tf4ZjwpY=": base64 of SHA-1 of KeyOther ++ GUID
TokenOther ==
    << 67, 47, 48, 110, 109, 72, 104, 66, 122, 116, 83, 82, 71, 82,
       49, 67, 119, 76, 54, 84, 102, 52, 90, 106, 119, 112, 89, 61 >>

\* C6: the accept token depends on the key alone and is the base64 of the
\* SHA-1 of key ++ GUID: every 101 response to the sample key, whatever the
\* path, the Upgrade value or what the connection did before, carries
\* "s3pPLMBiTxaQ9kYGzzhZRbK+xOo=", and every one to the other key its token.
C6_AcceptToken ==
    \A c \in Conns :
        (Served(c) /\ resp[c].status = 101) =>
            resp[c].accept =
                Some(IF req[c].key = Some(KeySample) THEN TokenSample ELSE TokenOther)

C6_Witness ==
    \E c \in Conns :
        /\ Served(c) /\ resp[c].status = 101
        /\ req[c].key = Some(KeySample)
        /\ req[c].path = PathNone /\ req[c].upgrade = Some("h2c")
        /\ resp[c].accept = Some(TokenSample)

\* the file a GET without Upgrade on connection c resolves to is a regular file
RegularFile(c) ==
    /\ GetFile(c)
    /\ opened[c] # None
    /\ opened[c][1] \in DOMAIN fs
    /\ fs[opened[c][1]].kind = "file"

\* C7: a GET without Upgrade on a file of N bytes is answered 200 with a
\* streamed body, and the chunks written, in order, are at every moment the
\* first bytes of the file, as many as the stream has read; when the stream
\* ends they are the N bytes of the file.
C7_RoundTrip ==
    \A c \in Conns :
        RegularFile(c) =>
            /\ resp[c].status = 200 /\ resp[c].stream
            /\ Len(sent[c]) <= fs[opened[c][1]].size
            /\ \A i \in 1..Len(sent[c]) : sent[c][i] = FileByte(i)
            /\ stream[c] # None => stream[c][1].pos = Len(sent[c])
            /\ last[c][1] = "end" => Len(sent[c]) = fs[opened[c][1]].size

C7_Witness ==
    \E c \in Conns :
        /\ RegularFile(c)
        /\ last[c] = << "end", 0, NoError >>
        /\ Len(sent[c]) = BUF_SIZE + 1
        /\ sent[c] = FileBytes(BUF_SIZE + 1)

\* C8: a GET without Upgrade whose resolved path cannot be opened is answered
\* 404 "Not Found" (an Ok response, not an Err), the error is logged and no
\* ByteStream is made.
C8_OpenFails ==
    \A c \in Conns :
        (GetFile(c)
            /\ OpenError(fs, PathPush(STATIC_FILES, Tail(req[c].path))) # None) =>
            /\ resp[c] = NotFound
            /\ stream[c] = None
            /\ sent[c] = << >>
            /\ \E kind \in { "NotFound", "PermissionDenied" } :
                   ("error: " \o kind) \in log[c]

C8_Witness ==
    \E c \in Conns :
        /\ GetFile(c) /\ req[c].path = PathDenied
        /\ resp[c].status = 404
        /\ "error: PermissionDenied" \in log[c]

\* C9: a connection is with the HTTP machinery or with its WebSocket task,
\* never both: the task runs serve_ws only on an upgraded connection that has
\* no stream, the HTTP side handles a connection only while the task has not
\* got it, and a request that opened a file or streams a body has no task.
C9_OneMode ==
    \A c \in Conns :
        /\ task[c] = "framing" => (http[c] = "upgraded" /\ stream[c] = None)
        /\ http[c] \in { "idle", "respond", "body" } => task[c] \in { "none", "pending" }
        /\ (stream[c] # None \/ resp[c].stream \/ opened[c] # None) => task[c] = "none"
        /\ task[c] # "none" => resp[c].status = 101

C9_Witness ==
    \E c, d \in Conns :
        /\ task[c] = "framing" /\ wsLast[c] = "msg"
        /\ http[d] = "body" /\ last[d][1] = "item"

\* C10 as claimed: once the message stream of serve_ws has yielded an error
\* the task has stopped (it does not log the error and poll on).
C10_Claimed ==
    \A c \in Conns : wsLast[c] = "err" => task[c] = "done"

\* the line the spawned task logs when on_upgrade fails
UpgradeFailedLine == "error: WebSocket upgrade failed."

\* everything the model keeps for connection d is left as it is by the step
ConnUnchanged(d) ==
    /\ http'[d] = http[d] /\ req'[d] = req[d] /\ resp'[d] = resp[d]
    /\ opened'[d] = opened[d] /\ stream'[d] = stream[d] /\ sent'[d] = sent[d]
    /\ last'[d] = last[d] /\ task'[d] = task[d] /\ wsLast'[d] = wsLast[d]
    /\ log'[d] = log[d]

\* what holds of a connection whose task has logged the failed upgrade
C11_Failed(c) ==
    UpgradeFailedLine \in log[c] =>
        /\ resp[c].status = 101
        /\ task[c] = "done"
        /\ wsLast[c] = "none"
        /\ \A item \in WsItems : ("debug: Received message: " \o item) \notin log[c]
        /\ stream[c] = None /\ opened[c] = None /\ sent[c] = << >>
        /\ ENABLED Accept(c)

\* the step in which the task of c logs the failed upgrade
C11_FailStep(c) ==
    (UpgradeFailedLine \notin log[c] /\ UpgradeFailedLine \in log'[c]) =>
        /\ task[c] = "pending" /\ task'[c] = "done"
        /\ http'[c] = http[c] /\ req'[c] = req[c] /\ resp'[c] = resp[c]
        /\ fs' = fs
        /\ \A d \in Conns \ { c } : ConnUnchanged(d)

\* C11: when on_upgrade fails for a request answered 101, the spawned task
\* logs an error, never enters the framing loop and ends with nothing else
\* done; the server goes on accepting, and the step changes nothing of any
\* other connection: its request, its response, its stream and its task.
C11_UpgradeFails ==
    /\ [](\A c \in Conns : C11_Failed(c))
    /\ [][\A c \in Conns : C11_FailStep(c)]_vars

C11_Witness ==
    \E c, d \in Conns :
        /\ c # d
        /\ UpgradeFailedLine \in log[c] /\ task[c] = "done" /\ http[c] = "closed"
        /\ task[d] = "framing" /\ wsLast[d] = "msg"

\* the connections whose ByteStream, and so its File, exists
OpenHandles == { c \in Conns : stream[c] # None }

\* the connections on which a response with a streamed body is being written
Streaming == { c \in Conns : http[c] \in { "respond", "body" } /\ resp[c].stream }

\* C12: a file handle is open only while its response is being written: it
\* is gone when the connection has closed, mid-stream included, and when the
\* chunk sequence has ended, so there are never more open handles than
\* streaming responses.
C12_HandlesReleased ==
    /\ OpenHandles \subseteq Streaming
    /\ Cardinality(OpenHandles) <= Cardinality(Streaming)
    /\ \A c \in Conns :
           /\ http[c] = "closed" => stream[c] = None
           /\ last[c][1] \in { "end", "err" } => stream[c] = None

C12_Witness ==
    \E c \in Conns :
        /\ RegularFile(c) /\ http[c] = "closed"
        /\ last[c][1] = "item"
        /\ Len(sent[c]) > 0 /\ Len(sent[c]) < fs[opened[c][1]].size
        /\ stream[c] = None

\* C13: GETs of the same file, one after the other or at once, do not touch
\* each other: every stream has its own handle and read position, no step
\* changes the file system, and however the chunk reads of the streams
\* interleave, what each response has sent is the start of the file up to
\* its own position, and the whole file when its stream has ended.
C13_Independent ==
    /\ [](\A c \in Conns :
            RegularFile(c) =>
                /\ sent[c] = FileBytes(Len(sent[c]))
                /\ Len(sent[c]) <= fs[opened[c][1]].size
                /\ stream[c] # None =>
                       (stream[c][1].path = opened[c][1] /\ stream[c][1].pos = Len(sent[c]))
                /\ last[c][1] = "end" => sent[c] = FileBytes(fs[opened[c][1]].size))
    /\ [][fs' = fs]_vars

C13_Witness ==
    \E c, d \in Conns :
        /\ c # d
        /\ RegularFile(c) /\ RegularFile(d) /\ opened[c] = opened[d]
        /\ last[c][1] = "end" /\ sent[c] = FileBytes(3)
        /\ stream[d] # None /\ stream[d][1].pos = 1 /\ sent[d] = FileBytes(1)

\* C14 as claimed: the path a GET without Upgrade opens is the static root,
\* a separator and the request path without its leading separator, so the
\* static root is a prefix of it, for "//x" and "/" too.
C14_Claimed ==
    \A c \in Conns :
        GetFile(c) =>
            /\ opened[c] = Some(STATIC_FILES \o << "/" >> \o Tail(req[c].path))
            /\ SubSeq(opened[c][1], 1, Len(STATIC_FILES)) = STATIC_FILES

\* the steps of connection c around the hand-over of an upgraded connection
C15_Step(c) ==
    /\ (http[c] # "upgraded" /\ http'[c] = "upgraded") =>
           (http[c] = "respond" /\ resp[c].status = 101 /\ task[c] = "pending")
    /\ (task[c] = "pending" /\ task'[c] = "framing") => http[c] = "upgraded"
    /\ wsLast'[c] # wsLast[c] /\ wsLast'[c] # "none" => http[c] = "upgraded"
    /\ http[c] = "upgraded" =>
           /\ http'[c] \in { "upgraded", "closed" }
           /\ req'[c] = req[c] /\ resp'[c] = resp[c] /\ opened'[c] = opened[c]
           /\ stream'[c] = stream[c] /\ sent'[c] = sent[c] /\ last'[c] = last[c]

\* C15: the task is spawned before serve_req returns, but it wraps the
\* connection and awaits frames only once the 101 response is written, and
\* from then on no step of the HTTP side (a request served, a head or a body
\* chunk written) happens on that connection.
C15_AfterSwitch ==
    /\ [](\A c \in Conns :
            /\ (http[c] = "respond" /\ resp[c].status = 101) => task[c] = "pending"
            /\ (task[c] = "framing" \/ wsLast[c] # "none") =>
                   (resp[c].status = 101 /\ http[c] \in { "upgraded", "closed" }))
    /\ [][\A c \in Conns : C15_Step(c)]_vars

C15_Witness ==
    \E c \in Conns :
        /\ resp[c].status = 101 /\ http[c] = "upgraded"
        /\ task[c] = "framing" /\ wsLast[c] = "err"
        /\ "debug: Received message: msg" \in log[c]

\* what one poll of the body of connection c did, by its result
C16_Poll(c) ==
    (http[c] = "body" /\ stream[c] # None
        /\ (last'[c] # last[c] \/ sent'[c] # sent[c])) =>
        LET pos == stream[c][1].pos
            n   == last'[c][2]
        IN  /\ last'[c][1] = "item" =>
                   /\ 1 <= n /\ n <= BUF_SIZE
                   /\ sent'[c] = sent[c] \o [ i \in 1..n |-> FileByte(pos + i) ]
                   /\ stream'[c] = Some([ path |-> stream[c][1].path, pos |-> pos + n ])
                   /\ http'[c] = "body"
            /\ last'[c][1] = "notready" =>
                   /\ n = 0 /\ last'[c][3] = NoError
                   /\ sent'[c] = sent[c]
                   /\ stream'[c] = stream[c]
                   /\ http'[c] = "body"

\* C16: every chunk has between 1 and 1024 bytes, and a poll is one read: a
\* read of n bytes appends exactly the next n bytes of the file as one chunk
\* and moves the position by n, and a NotReady read gives NotReady, with no
\* chunk, no end, no error and the position and the body left as they were.
C16_OneReadPerPoll ==
    /\ [](\A c \in Conns :
            /\ last[c][1] = "item" => (1 <= last[c][2] /\ last[c][2] <= BUF_SIZE)
            /\ last[c][1] # "item" => last[c][2] = 0
            /\ last[c][1] = "notready" => (stream[c] # None /\ http[c] = "body"))
    /\ [][\A c \in Conns : C16_Poll(c)]_vars

C16_Witness ==
    \E c \in Conns :
        /\ last[c] = << "notready", 0, NoError >>
        /\ stream[c] # None /\ stream[c][1].pos = BUF_SIZE
        /\ sent[c] = FileBytes(BUF_SIZE)
        /\ fs[opened[c][1]].size = BUF_SIZE + 1

\* C17 as claimed: once a poll of a ByteStream has returned the end of the
\* sequence, no later poll of it returns an item, whatever the read gives.
C17_Claimed ==
    [][\A c \in Conns :
          (last[c][1] = "end" /\ stream[c] # None /\ stream'[c] # None) =>
              (last'[c][1] # "item" /\ sent'[c] = sent[c])]_vars

\* C18: an Err of the read comes out of ByteStream::poll as that same error,
\* not as the end and not as a chunk; what was sent before it is the start
\* of the file up to the read position, and the response gets no chunk
\* after it: the stream is gone and the connection closed.
C18_ReadError ==
    /\ [](\A c \in Conns :
            /\ \A rd \in PollReads(c) :
                   rd.kind = "err" =>
                       ByteStream_poll(rd) = PollResult("err", << >>, rd.err)
            /\ last[c][1] = "err" =>
                   /\ last[c][2] = 0 /\ last[c][3] \in IoErrors
                   /\ stream[c] = None /\ http[c] = "closed"
                   /\ sent[c] = FileBytes(Len(sent[c]))
                   /\ Len(sent[c]) <= fs[opened[c][1]].size
            /\ last[c][1] # "err" => last[c][3] = NoError)
    /\ [][\A c \in Conns :
            (last[c][1] = "err" /\ req'[c] = req[c]) =>
                (sent'[c] = sent[c] /\ last'[c] = last[c])]_vars

C18_Witness ==
    \E c \in Conns :
        /\ RegularFile(c) /\ fs[opened[c][1]].size = MaxBlocks * BUF_SIZE
        /\ last[c] = << "err", 0, "TimedOut" >>
        /\ sent[c] = FileBytes(BUF_SIZE)
        /\ http[c] = "closed" /\ stream[c] = None

\* the file a GET without Upgrade on connection c resolves to was opened
FileOpened(c) ==
    GetFile(c) /\ OpenError(fs, PathPush(STATIC_FILES, Tail(req[c].path))) = None

\* C19: a GET without Upgrade whose file opens is answered 200 with a
\* streamed body, and with a Content-Type exactly when the MIME lookup maps
\* the extension of the request path, that mapping being its value: "/a.txt"
\* gets text/plain; "/u.q", whose extension is unknown, and "/" and "//x",
\* which have none, get no Content-Type and are served all the same.
C19_ContentType ==
    \A c \in Conns :
        FileOpened(c) =>
            LET ext     == Extension(req[c].path)
                mapping == IF ext = None THEN None ELSE get_mime_type_str(ext[1])
            IN  /\ resp[c].status = 200 /\ resp[c].stream
                /\ resp[c].content_type = mapping
                /\ req[c].path = PathIndex => resp[c].content_type = Some("text/plain")
                /\ req[c].path \in { PathUnknown, PathRoot, PathDouble } =>
                       resp[c].content_type = None

C19_Witness ==
    \E c \in Conns :
        /\ FileOpened(c) /\ req[c].path = PathUnknown
        /\ Extension(req[c].path) = Some(<< "q" >>)
        /\ resp[c].status = 200 /\ resp[c].content_type = None
        /\ last[c][1] = "end" /\ sent[c] = FileBytes(1)

\* the five responses of serve_req that have a fixed body
Outcomes(key) ==
    << MethodNotAllowed, MissingKey, UnknownVersion, SwitchingProtocols(key),
       NotFound >>

\* the number of the terminal outcome a response is: 1 to 5 as in Outcomes,
\* 6 for the 200 with a streamed body, 0 for none of them
OutcomeOf(c) ==
    LET key   == IF req[c].key = None THEN KeySample ELSE req[c].key[1]
        fixed == { i \in 1..5 : resp[c] = Outcomes(key)[i] }
        file  == IF resp[c].status = 200 /\ resp[c].stream /\ resp[c].body = ""
                    /\ resp[c].upgrade = None /\ resp[c].accept = None
                 THEN { 6 } ELSE { }
    IN  IF Cardinality(fixed \cup file) = 1
        THEN CHOOSE i \in fixed \cup file : TRUE
        ELSE 0

\* C20: every request ends in exactly one of 405, 400 missing key, 400
\* unknown version, 101, 404 and 200; an Upgrade header of any value sends a
\* GET to the WebSocket branch, where no file is opened; a task is spawned
\* exactly for a 101; a file is opened exactly for a GET without Upgrade,
\* and only in the step that serves the request.
C20_Outcomes ==
    /\ [](\A c \in Conns :
            Served(c) =>
                /\ OutcomeOf(c) \in 1..6
                /\ req[c].method # "GET" <=> OutcomeOf(c) = 1
                /\ GetUpgrade(c) <=> OutcomeOf(c) \in { 2, 3, 4 }
                /\ GetFile(c) <=> OutcomeOf(c) \in { 5, 6 }
                /\ GetUpgrade(c) => (opened[c] = None /\ stream[c] = None /\ sent[c] = << >>)
                /\ task[c] # "none" <=> OutcomeOf(c) = 4
                /\ opened[c] # None <=> GetFile(c)
                /\ stream[c] # None => stream[c][1].path = opened[c][1])
    /\ [][\A c \in Conns :
            opened'[c] # opened[c] =>
                \/ (http[c] = "idle" /\ http'[c] = "respond" /\ req'[c] # NoRequest)
                \/ (http[c] = "closed" /\ http'[c] = "idle" /\ opened'[c] = None)]_vars

C20_Witness ==
    \E c \in Conns :
        /\ GetUpgrade(c) /\ req[c].upgrade = Some("h2c") /\ req[c].path = PathIndex
        /\ req[c].version = Some("13") /\ req[c].key = None
        /\ OutcomeOf(c) = 2
        /\ opened[c] = None /\ task[c] = "none"

====
